---- MODULE Spec2Model ----
(***************************************************************************)
(* Model of the agent_starter_pack API: the generate-project request       *)
(* handler and the download endpoint (api/main.py), the project            *)
(* materializer, customizer, archiver and local publisher                  *)
(* (api/project_generator.py), the remote publisher (api/github_helper.py) *)
(* the template renderer (api/generator.py), and the model adapters of the *)
(* on-premise template (app_utils/litellm_adapter.py, openai_llm.py).      *)
(*                                                                         *)
(* Strings are sequences of tokens; an f-string is a concatenation (\o).   *)
(* An agent name is a sequence of one-character tokens.                    *)
(* The handlers are `async def` without any await, so one request runs     *)
(* to completion before the next is received: one request is active at a   *)
(* time, and it advances one source statement per step.                    *)
(***************************************************************************)
EXTENDS Integers, Sequences, FiniteSets, TLC

VARIABLES
    pc,           \* position of the active request in generate_agent_project
    req,          \* the GenerateProjectRequest being handled
    outputDir,    \* TRUE when TEMP_DIR/projects exists
    projects,     \* TEMP_DIR/projects: agent name -> project tree (or NoTree)
    downloads,    \* TEMP_DIR/downloads: agent name -> archive (or NoArchive)
    gitIdx,       \* index of the next git command of create_git_repository
    file_count,   \* local of the handler: the count generate_project returned
    git_repo_url, \* local of the handler
    exc,          \* the exception in flight (NoExc when none)
    response,     \* the HTTP response of the last finished request
    log,          \* the external steps the active request has performed
    snapshot,     \* <<outputDir, projects, downloads>> when the request arrived
    filename,     \* the path parameter of the download request just answered
    vpc,          \* position of the active push_agent_to_github call
    args,         \* its arguments and the GITHUB_TOKEN environment value
    loc,          \* its locals: token, github_base, repo_owner, urls, folder
    tempDir,      \* TRUE while its TemporaryDirectory exists
    cloned,       \* TRUE when the clone exists in the temporary directory
    remote,       \* folders present on the remote repository's branch
    foreign,      \* those of them whose content another client pushed
    result,       \* how the last push_agent_to_github call ended
    plog,         \* the external steps the active call has performed
    genRequest,   \* the request generate_agent_code is applied to
    code,         \* the source text generate_agent_code returned
    custRequest,  \* the request customize_agent_file is applied to
    content,      \* the agent.py text customize_agent_file wrote
    apc,          \* position of the active generate_content_async call
    call,         \* its adapter class and its stream argument
    received,     \* the chunks the upstream stream has delivered to it
    yielded,      \* the responses it has yielded, in order
    raised,       \* the exception raised inside its try block (NoExc when none)
    propagated    \* TRUE when an exception has left it

hvars == <<pc, req, outputDir, projects, downloads, gitIdx, file_count,
           git_repo_url, exc, response, log, snapshot, filename>>
pvars == <<vpc, args, loc, tempDir, cloned, remote, foreign, result, plog>>
gvars == <<genRequest, code>>
cvars == <<custRequest, content>>
lvars == <<apc, call, received, yielded, raised, propagated>>
vars == <<pc, req, outputDir, projects, downloads, gitIdx, file_count,
          git_repo_url, exc, response, log, snapshot, filename,
          vpc, args, loc, tempDir, cloned, remote, foreign, result, plog,
          genRequest, code, custRequest, content,
          apc, call, received, yielded, raised, propagated>>

----------------------------------------------------------------------------
(* Strings and optional values *)

\* Python's None for an optional string field
None == <<"<None>">>

\* Python truthiness of an optional string: None and "" are falsy
Truthy(s) == s # None /\ s # <<>>

\* x or y
OrElse(x, y) == IF Truthy(x) THEN x ELSE y

\* the longest name length drawn when validation is checked on its own
MaxNameLen == 3

\* one representative per character class: ASCII letter, ASCII digit, hyphen,
\* underscore, a non-ASCII letter (U+00E9), a path separator
AsciiAlnum == {"a", "7"}
NonAsciiAlnum == {"U+00E9"}
Chars == AsciiAlnum \cup NonAsciiAlnum \cup {"-", "_", "/"}

Names == UNION {[1..n -> Chars] : n \in 1..MaxNameLen}

\* s.replace(c, "") for a one-character c
Remove(s, c) == SelectSeq(s, LAMBDA x : x # c)

\* str.isalnum(): non-empty and every character alphanumeric (Unicode sense)
IsAlnum(s) == Len(s) > 0 /\ \A i \in 1..Len(s) : s[i] \in AsciiAlnum \cup NonAsciiAlnum

\* request.agent_name.replace("-", "").replace("_", "").isalnum()
NameCheck(name) == IsAlnum(Remove(Remove(name, "-"), "_"))

----------------------------------------------------------------------------
(* Exceptions *)

NoExc == [type |-> "none", text |-> <<>>]

\* the classes on the exception's method resolution order
Bases(type) ==
    CASE type = "HTTPException" -> {"HTTPException", "Exception"}
      [] type = "RuntimeError" -> {"RuntimeError", "Exception"}
      [] type = "ValueError" -> {"ValueError", "Exception"}
      [] type = "OSError" -> {"OSError", "Exception"}
      [] type = "FileNotFoundError" -> {"FileNotFoundError", "OSError", "Exception"}
      [] type = "CalledProcessError" -> {"CalledProcessError", "SubprocessError", "Exception"}
      [] type = "ConnectionError" -> {"ConnectionError", "OSError", "Exception"}
      [] type = "APIError" -> {"APIError", "Exception"}
      [] type = "IndexError" -> {"IndexError", "LookupError", "Exception"}
      [] type = "ValidationError" -> {"ValidationError", "ValueError", "Exception"}
      [] OTHER -> {}

\* does `except <clause>` catch an exception of this type
Catches(clause, type) == clause \in Bases(type)

\* str(e) of an HTTPException: "<status_code>: <detail>"
HTTPExceptionText(status, detail) == <<status, ": ">> \o detail

ValidationDetail ==
    <<"Agent name must contain only alphanumeric characters, hyphens, and underscores">>

\* str(e) of a CalledProcessError
CalledProcessText(cmd) == <<"Command '">> \o cmd \o <<"' returned non-zero exit status">>

----------------------------------------------------------------------------
(* The project tree *)

\* agent.py does not exist: no text
NoAgent == <<>>

NoTree == [files |-> {}, agent |-> NoAgent]
NoArchive == [files |-> {}, agent |-> NoAgent, root |-> None]

AgentPy == "app/agent.py"

\* s starts with p
StartsWith(s, p) == Len(s) >= Len(p) /\ SubSeq(s, 1, Len(p)) = p

RECURSIVE ReplaceSeq(_, _, _)
\* s.replace(old, new): every occurrence, left to right, without overlap
ReplaceSeq(s, old, new) ==
    IF s = <<>> THEN <<>>
    ELSE IF StartsWith(s, old)
         THEN new \o ReplaceSeq(SubSeq(s, Len(old) + 1, Len(s)), old, new)
         ELSE <<Head(s)>> \o ReplaceSeq(Tail(s), old, new)

\* sub in s
Contains(s, sub) == \E i \in 1..Len(s) : StartsWith(SubSeq(s, i, Len(s)), sub)

RECURSIVE Split(_, _)
\* s.split(m) for a one-token m: the list of the pieces between the occurrences
Split(s, m) ==
    IF ~Contains(s, <<m>>) THEN <<s>>
    ELSE LET i == CHOOSE k \in 1..Len(s) : s[k] = m /\ \A l \in 1..(k - 1) : s[l] # m
         IN  <<SubSeq(s, 1, i - 1)>> \o Split(SubSeq(s, i + 1, Len(s)), m)

RECURSIVE Join(_, _)
\* sep.join(parts) for a list of strings
Join(parts, sep) ==
    IF parts = <<>> THEN <<>>
    ELSE IF Len(parts) = 1 THEN parts[1]
         ELSE parts[1] \o sep \o Join(Tail(parts), sep)

\* s.rfind(t) for a one-token t, as the index of the token; 0 when not found
RFind(s, t) ==
    IF \E i \in 1..Len(s) : s[i] = t
    THEN CHOOSE i \in 1..Len(s) : s[i] = t /\ \A l \in (i + 1)..Len(s) : s[l] # t
    ELSE 0

DefaultDescription == <<"An agent that can provide information about the weather and time.">>
DefaultInstruction ==
    <<"You are a helpful AI assistant designed to provide accurate and useful information.">>
DefaultTools == <<"get_weather", "get_current_time">>

\* the strings customize_agent_file searches for
DescriptionBoilerplate == <<"description=\"">> \o DefaultDescription \o <<"\"">>
InstructionBoilerplate == <<"instruction=\"">> \o DefaultInstruction \o <<"\"">>
ToolsBoilerplate == <<"tools=[get_weather, get_current_time]">>
Marker == "# Create ADK agent"

\* the template up to the end of the llm construction: each ")\n\n" is a token
TemplateHead ==
    <<"import ... load_dotenv(", ")\n\n",
      "# Get LLM configuration ... llm_api_key = os.getenv(\"LLM_API_KEY\", \"not-needed\"", ")\n\n",
      "# Use ADK's built-in LiteLLM support! ... llm = LiteLlm(...,\n", ")\n\n">>

\* the two default tool functions, between the llm construction and the marker
TemplateFunctions ==
    <<"\n", "def get_weather(query: str) -> str: ...", "\n\n\n",
      "def get_current_time(query: str) -> str: ...", "\n\n\n">>

\* the comment line after the marker and the start of the Agent(...) call
TemplateAgentOpen ==
    <<" with LiteLLM and A2A protocol support\nroot_agent = Agent(\n    name=\"root_agent\",\n    model=llm,\n    ">>

FieldSep == <<",\n    ">>

\* the end of the Agent(...) call and the A2A application
TemplateTail == <<",\n", ")\n\n", "# Convert ADK agent to A2A application ... a2a_app = to_a2a(...)\n">>

\* the shipped template's app/agent.py
TemplateAgent ==
    TemplateHead \o TemplateFunctions \o <<Marker>> \o TemplateAgentOpen
    \o DescriptionBoilerplate \o FieldSep \o InstructionBoilerplate \o FieldSep
    \o ToolsBoilerplate \o TemplateTail

\* the file sets the scaffolding engine can leave: the shipped template has
\* app/agent.py
ScaffoldFiles == {{"README.md", "pyproject.toml", AgentPy}}

ToolNames(tools) == [i \in 1..Len(tools) |-> tools[i].name]

\* generate_tool_stub(tool)
generate_tool_stub(tool) ==
    <<"\ndef ", tool.name, "(query: str) -> str:\n    \"\"\"">> \o tool.description
    \o <<"\n\n    Args: ... Returns: ...\n    \"\"\"\n    # TODO: Implement ", tool.name,
         "\n    return f\"Result from ", tool.name, ": {query}\"\n">>

\* [generate_tool_stub(tool) for tool in request.tools]
ToolFunctions(tools) == [i \in 1..Len(tools) |-> generate_tool_stub(tools[i])]

\* ", ".join(tool_names)
ToolsListStr(tools) == Join([i \in 1..Len(tools) |-> <<tools[i].name>>], <<", ">>)

\* parts[0][:llm_section_end], llm_section_end = parts[0].rfind(")\n\n") + 3;
\* when nothing is found rfind gives -1 and the slice is the first two characters
UpToLlmSectionEnd(part) ==
    IF RFind(part, ")\n\n") > 0 THEN SubSeq(part, 1, RFind(part, ")\n\n"))
    ELSE <<"<the first two characters>">>

\* the tools branch of customize_agent_file: the text is split at the marker,
\* the first part is cut after its last ")\n\n" and the stubs are appended,
\* the default tools list is replaced in the second part, and the parts are
\* joined with the marker again
WithTools(text, tools) ==
    IF ~Contains(text, <<Marker>>) THEN text
    ELSE LET parts == Split(text, Marker)
             part0 == UpToLlmSectionEnd(parts[1])
                      \o Join(ToolFunctions(tools), <<"\n">>) \o <<"\n\n">>
             part1 == ReplaceSeq(parts[2], ToolsBoilerplate,
                                 <<"tools=[">> \o ToolsListStr(tools) \o <<"]">>)
         IN  Join([[parts EXCEPT ![1] = part0] EXCEPT ![2] = part1], <<Marker>>)

\* customize_agent_file: the text written back for the text read
Customized(agent, request) ==
    LET described == ReplaceSeq(agent, DescriptionBoilerplate,
                                <<"description=\"">> \o request.description \o <<"\"">>)
        instructed == ReplaceSeq(described, InstructionBoilerplate,
                                 <<"instruction=\"">> \o request.prompt \o <<"\"">>)
    IN  IF request.tools # <<>> THEN WithTools(instructed, request.tools) ELSE instructed

\* sum(1 for _ in project_path.rglob("*") if _.is_file())
CountFiles(tree) == Cardinality(tree.files)

\* shutil.make_archive(zip_path, "zip", project_path.parent, project_path.name)
Archive(tree, name) == [files |-> tree.files, agent |-> tree.agent, root |-> name]

\* f"/downloads/{zip_name}"
DownloadUrlNoExtension(name) == <<"/downloads/">> \o name

\* f"/downloads/{zip_name}.zip"
DownloadUrl(name) == <<"/downloads/">> \o name \o <<".zip">>

\* f"file://{project_path.absolute()}"
FileUrl(name) == <<"file://", "/tmp/agent-starter-pack-api", "/", "projects", "/">> \o name

----------------------------------------------------------------------------
(* The generate-project handler *)

\* the agent names the handler is driven with: an accepted name, a name of
\* hyphens and underscores only, and a name with a path separator
ReqNames == {<<"a", "-", "7">>, <<"-", "_">>, <<"a", "/">>}

Tool(n) == [name |-> n, description |-> <<"does ", n>>]

Requests ==
    [agent_name : ReqNames,
     description : {<<"An agent that reports weather">>},
     prompt : {<<"You are a weather bot">>},
     tools : {<<>>, <<Tool("get_forecast")>>},
     create_git_repo : BOOLEAN,
     git_repo_name : {None, <<"agents">>},
     github_token : {None, <<"ghp_token">>},
     github_org : {None, <<"acme">>},
     github_enterprise_url : {None, <<"http://ghe.corp">>}]

NoRequest ==
    [agent_name |-> <<>>, description |-> <<>>, prompt |-> <<>>, tools |-> <<>>,
     create_git_repo |-> FALSE, git_repo_name |-> None, github_token |-> None,
     github_org |-> None, github_enterprise_url |-> None]

NoResponse == [status |-> 0]

\* push_agent_to_github before its first call: no arguments, no locals
NoArgs ==
    [project |-> NoTree, agent_name |-> <<>>, repo_name |-> <<>>, github_token |-> None,
     env_token |-> None, github_org |-> None, github_enterprise_url |-> None,
     branch |-> <<"main">>]

NoLoc ==
    [token |-> None, github_base |-> None, repo_owner |-> None, clone_url |-> None,
     html_url |-> None, folder_name |-> None, auth_clone_url |-> None,
     agent_folder |-> {}]

\* the statements of the handler's try block, in source order
OrderArchiveFirst ==
    <<"validate", "mkdir", "scaffold", "archive", "customize", "count", "publish", "respond">>

OrderMkdirFirst ==
    <<"mkdir", "validate", "scaffold", "customize", "count", "archive", "publish", "respond">>

OrderPublishFirst ==
    <<"validate", "mkdir", "scaffold", "customize", "count", "publish", "archive", "respond">>

Order ==
    <<"validate", "mkdir", "scaffold", "customize", "count", "archive", "publish", "respond">>

After(p) == Order[(CHOOSE i \in 1..Len(Order) : Order[i] = p) + 1]

\* the five commands of create_git_repository, the commit before the staging
GitCommandsCommitFirst ==
    <<"git init", "git config user.name", "git config user.email", "git commit", "git add .">>

\* the commands of create_git_repository with the commit run a second time
GitCommandsCommitTwice ==
    <<"git init", "git config user.name", "git config user.email", "git add .", "git commit",
      "git commit">>

\* the five commands of create_git_repository, in source order
GitCommands ==
    <<"git init", "git config user.name", "git config user.email", "git add .", "git commit">>

\* how a subprocess.run(check=True) can end: exit 0, a non-zero exit, or the
\* executable cannot be started
RunOutcomes == {"ok", "nonzero", "nostart"}

\* the exception subprocess.run raises for an outcome other than "ok"
RunError(cmd, outcome) ==
    IF outcome = "nonzero"
    THEN [type |-> "CalledProcessError", text |-> CalledProcessText(<<cmd>>)]
    ELSE [type |-> "FileNotFoundError", text |-> <<"No such file or directory: 'git'">>]

\* the except clause of generate_agent_project
HandlerCatchRuntimeOnly == "RuntimeError"

HandlerCatch == "Exception"

\* the except clause of create_git_repository
GitRepoCatch == "CalledProcessError"

Logged(step, outcome) == Append(log, [step |-> step, outcome |-> outcome])

Tree == projects[req.agent_name]

\* the service after start-up: no request yet, nothing generated
ServiceInit ==
    /\ pc = "idle"
    /\ req = NoRequest
    /\ outputDir = FALSE
    /\ projects = [n \in ReqNames |-> NoTree]
    /\ downloads = [n \in ReqNames |-> NoArchive]
    /\ gitIdx = 1
    /\ file_count = 0
    /\ git_repo_url = None
    /\ exc = NoExc
    /\ response = NoResponse
    /\ log = <<>>
    /\ snapshot = <<FALSE, [n \in ReqNames |-> NoTree], [n \in ReqNames |-> NoArchive]>>
    /\ vpc = "idle"
    /\ args = NoArgs
    /\ loc = NoLoc
    /\ tempDir = FALSE
    /\ cloned = FALSE
    /\ remote = {}
    /\ foreign = {}
    /\ result = [kind |-> "none"]
    /\ plog = <<>>
    /\ filename = None

\* no generate_content_async call has been made
AdapterIdle ==
    /\ apc = "idle"
    /\ call = [adapter |-> "none", stream |-> FALSE]
    /\ received = <<>>
    /\ yielded = <<>>
    /\ raised = NoExc
    /\ propagated = FALSE

Init ==
    /\ ServiceInit
    /\ AdapterIdle
    /\ genRequest = None
    /\ code = <<>>
    /\ custRequest = None
    /\ content = <<>>

\* a request arrives; the handler's locals are fresh
Receive ==
    /\ pc = "idle"
    /\ \E r \in Requests : req' = r
    /\ pc' = Order[1]
    /\ gitIdx' = 1
    /\ file_count' = 0
    /\ git_repo_url' = None
    /\ exc' = NoExc
    /\ response' = NoResponse
    /\ log' = <<>>
    /\ snapshot' = <<outputDir, projects, downloads>>
    /\ filename' = None
    /\ UNCHANGED <<outputDir, projects, downloads>>
    /\ UNCHANGED <<pvars, gvars, cvars, lvars>>

\* if not ...isalnum(): raise HTTPException(status_code=400, ...)
Validate ==
    /\ pc = "validate"
    /\ IF NameCheck(req.agent_name)
       THEN /\ pc' = After("validate")
            /\ exc' = exc
       ELSE /\ pc' = "except"
            /\ exc' = [type |-> "HTTPException",
                        text |-> HTTPExceptionText("400", ValidationDetail)]
    /\ UNCHANGED <<req, filename, outputDir, projects, downloads, gitIdx, file_count,
                   git_repo_url, response, log, snapshot>>
    /\ UNCHANGED <<pvars, gvars, cvars, lvars>>

\* output_dir = TEMP_DIR / "projects"; output_dir.mkdir(exist_ok=True)
MkOutputDir ==
    /\ pc = "mkdir"
    /\ \E o \in {"ok", "fail"} :
        /\ log' = Logged("mkdir", o)
        /\ IF o = "ok"
           THEN /\ outputDir' = TRUE
                /\ pc' = After("mkdir")
                /\ exc' = exc
           ELSE /\ outputDir' = outputDir
                /\ pc' = "except"
                /\ exc' = [type |-> "OSError", text |-> <<"mkdir failed">>]
    /\ UNCHANGED <<req, filename, projects, downloads, gitIdx, file_count,
                   git_repo_url, response, snapshot>>
    /\ UNCHANGED <<pvars, gvars, cvars, lvars>>

\* how the cookiecutter call can end. It is given no overwrite flag, so it
\* raises when output_dir/<agent_name> already exists; else it expands the
\* template or fails, leaving nothing behind
ScaffoldOutcomes(tree) == IF tree = NoTree THEN {"ok", "fail"} ELSE {"exists", "fail"}

\* the engine's diagnostic text of a failed scaffolding
ScaffoldDiagnostic(o, name) ==
    IF o = "exists"
    THEN <<"Error: \"">> \o name \o <<"\" directory already exists">>
    ELSE <<"cookiecutter diagnostic">>

\* except Exception as e: raise RuntimeError("Failed to create project")
ScaffoldRaisedBare(diag) ==
    [type |-> "RuntimeError", text |-> <<"Failed to create project">>]

\* except Exception as e: raise RuntimeError(f"Failed to create project: {e}")
ScaffoldRaised(diag) ==
    [type |-> "RuntimeError", text |-> <<"Failed to create project: ">> \o diag]

\* generate_project up to the scaffolding call: the archetype must be available
\* (else ValueError); cookiecutter either expands the template into
\* output_dir/<agent_name> or raises, which is wrapped in a RuntimeError.
Scaffold ==
    /\ pc = "scaffold"
    /\ \E o \in ScaffoldOutcomes(Tree) \cup {"unavailable"} :
        \E f \in ScaffoldFiles :
            /\ IF o = "ok"
               THEN /\ projects' =
                        [projects EXCEPT ![req.agent_name] =
                            [files |-> Tree.files \cup f,
                             agent |-> IF AgentPy \in f THEN TemplateAgent ELSE Tree.agent]]
                    /\ pc' = After("scaffold")
                    /\ exc' = exc
                    /\ log' = Logged("scaffold", o)
               ELSE /\ projects' = projects
                    /\ pc' = "except"
                    /\ f = CHOOSE g \in ScaffoldFiles : TRUE
                    /\ IF o # "unavailable"
                       THEN /\ exc' = ScaffoldRaised(ScaffoldDiagnostic(o, req.agent_name))
                            /\ log' = Logged("scaffold", o)
                       ELSE /\ exc' = [type |-> "ValueError",
                                       text |-> <<"adk_a2a_base agent not available">>]
                            /\ log' = log
    /\ UNCHANGED <<req, filename, outputDir, downloads, gitIdx, file_count,
                   git_repo_url, response, snapshot>>
    /\ UNCHANGED <<pvars, gvars, cvars, lvars>>

\* if agent_py_path.exists(): customize_agent_file(agent_py_path, request)
\* (read_text, the replacements, write_text; either file operation can fail)
Customize ==
    /\ pc = "customize"
    /\ IF AgentPy \in Tree.files
       THEN \E o \in {"ok", "fail"} :
            /\ log' = Logged("customize", o)
            /\ IF o = "ok"
               THEN /\ projects' =
                        [projects EXCEPT ![req.agent_name].agent = Customized(Tree.agent, req)]
                    /\ pc' = After("customize")
                    /\ exc' = exc
               ELSE /\ projects' = projects
                    /\ pc' = "except"
                    /\ exc' = [type |-> "OSError", text |-> <<"agent.py: I/O error">>]
       ELSE /\ pc' = After("customize")
            /\ UNCHANGED <<projects, exc, log>>
    /\ UNCHANGED <<req, filename, outputDir, downloads, gitIdx, file_count,
                   git_repo_url, response, snapshot>>
    /\ UNCHANGED <<pvars, gvars, cvars, lvars>>

\* file_count = sum(1 for _ in project_path.rglob("*") if _.is_file())
Count ==
    /\ pc = "count"
    /\ \E o \in {"ok", "fail"} :
        /\ log' = Logged("count", o)
        /\ IF o = "ok"
           THEN /\ file_count' = CountFiles(Tree)
                /\ pc' = After("count")
                /\ exc' = exc
           ELSE /\ file_count' = file_count
                /\ pc' = "except"
                /\ exc' = [type |-> "OSError", text |-> <<"rglob failed">>]
    /\ UNCHANGED <<req, filename, outputDir, projects, downloads, gitIdx,
                   git_repo_url, response, snapshot>>
    /\ UNCHANGED <<pvars, gvars, cvars, lvars>>

\* create_zip_archive(project_path, DOWNLOADS_DIR / agent_name)
MakeArchive ==
    /\ pc = "archive"
    /\ \E o \in {"ok", "fail"} :
        /\ log' = Logged("archive", o)
        /\ IF o = "ok"
           THEN /\ downloads' =
                    [downloads EXCEPT ![req.agent_name] = Archive(Tree, req.agent_name)]
                /\ pc' = After("archive")
                /\ exc' = exc
           ELSE /\ downloads' = downloads
                /\ pc' = "except"
                /\ exc' = [type |-> "OSError", text |-> <<"make_archive failed">>]
    /\ UNCHANGED <<req, filename, outputDir, projects, gitIdx, file_count,
                   git_repo_url, response, snapshot>>
    /\ UNCHANGED <<pvars, gvars, cvars, lvars>>

\* git_repo_url = None; if request.create_git_repo: ... (not taken)
SkipPublish ==
    /\ pc = "publish"
    /\ ~req.create_git_repo
    /\ pc' = After("publish")
    /\ UNCHANGED <<req, filename, outputDir, projects, downloads, gitIdx, file_count,
                   git_repo_url, exc, response, log, snapshot>>
    /\ UNCHANGED <<pvars, gvars, cvars, lvars>>

\* the files a git command of create_git_repository adds to the project tree
GitFiles(cmd) == IF cmd = "git init" THEN {".git/HEAD"} ELSE {}

\* create_git_repository: the next of its five commands runs in project_path.
\* After the last one the call returns the file:// reference; an exception the
\* except clause catches makes it return None; any other propagates.
LocalGit ==
    /\ pc = "publish"
    /\ req.create_git_repo
    /\ \E o \in RunOutcomes :
        LET cmd == GitCommands[gitIdx]
            e == RunError(cmd, o)
        IN  /\ log' = Logged(cmd, o)
            /\ IF o = "ok"
               THEN /\ projects' =
                        [projects EXCEPT ![req.agent_name].files = @ \cup GitFiles(cmd)]
                    /\ exc' = exc
                    /\ IF gitIdx = Len(GitCommands)
                       THEN /\ git_repo_url' = FileUrl(req.agent_name)
                            /\ pc' = After("publish")
                            /\ gitIdx' = gitIdx
                       ELSE /\ git_repo_url' = git_repo_url
                            /\ pc' = pc
                            /\ gitIdx' = gitIdx + 1
               ELSE /\ projects' = projects
                    /\ gitIdx' = gitIdx
                    /\ IF Catches(GitRepoCatch, e.type)
                       THEN /\ git_repo_url' = None
                            /\ pc' = After("publish")
                            /\ exc' = exc
                       ELSE /\ git_repo_url' = git_repo_url
                            /\ pc' = "except"
                            /\ exc' = e
    /\ UNCHANGED <<req, filename, outputDir, downloads, file_count, response, snapshot>>
    /\ UNCHANGED <<pvars, gvars, cvars, lvars>>

\* a response that names a destination folder when the request has a token
RespondWithFolder ==
    /\ pc = "respond"
    /\ response' =
        [status |-> 200,
         project_name |-> req.agent_name,
         download_url |-> DownloadUrl(req.agent_name),
         git_repo_url |-> git_repo_url,
         git_folder_name |-> IF Truthy(req.github_token) THEN req.agent_name ELSE None,
         files_generated |-> file_count,
         message |-> <<"Project '">> \o req.agent_name \o <<"' generated successfully!">>]
    /\ pc' = "idle"
    /\ UNCHANGED <<req, filename, outputDir, projects, downloads, gitIdx, file_count,
                   git_repo_url, exc, log, snapshot>>
    /\ UNCHANGED <<pvars, gvars, cvars, lvars>>

\* return GenerateProjectResponse(...)
Respond ==
    /\ pc = "respond"
    /\ response' =
        [status |-> 200,
         project_name |-> req.agent_name,
         download_url |-> DownloadUrl(req.agent_name),
         git_repo_url |-> git_repo_url,
         git_folder_name |-> None,
         files_generated |-> file_count,
         message |-> <<"Project '">> \o req.agent_name \o <<"' generated successfully!">>]
    /\ pc' = "idle"
    /\ UNCHANGED <<req, filename, outputDir, projects, downloads, gitIdx, file_count,
                   git_repo_url, exc, log, snapshot>>
    /\ UNCHANGED <<pvars, gvars, cvars, lvars>>

\* except Exception as e: raise HTTPException(status_code=500, detail=...).
\* An exception the clause does not catch leaves the handler, and the
\* framework answers with its bare internal-server-error response.
Except ==
    /\ pc = "except"
    /\ response' =
        IF Catches(HandlerCatch, exc.type)
        THEN [status |-> 500, detail |-> <<"Project generation failed: ">> \o exc.text]
        ELSE [status |-> 500, detail |-> <<"Internal Server Error">>]
    /\ pc' = "idle"
    /\ UNCHANGED <<req, filename, outputDir, projects, downloads, gitIdx, file_count,
                   git_repo_url, exc, log, snapshot>>
    /\ UNCHANGED <<pvars, gvars, cvars, lvars>>

\* zip_name = f"{request.agent_name}"; make_archive appends ".zip"
ZipName(name) == name \o <<".zip">>

\* the path parameters the download endpoint is driven with: the archive name
\* of each agent name, an agent name without the extension, and the parent
\* directory
Filenames == {ZipName(n) : n \in ReqNames} \cup {<<"a", "-", "7">>, <<"..">>}

\* DOWNLOADS_DIR / filename is a directory
IsDirectory(f) == f \in {<<".">>, <<"..">>}

\* the archive at DOWNLOADS_DIR / filename, NoArchive when there is none
ArchiveAt(f) ==
    IF \E n \in ReqNames : f = ZipName(n)
    THEN downloads[CHOOSE n \in ReqNames : f = ZipName(n)]
    ELSE NoArchive

\* file_path.exists(): true of the archives, and also of a directory
Exists(f) == IsDirectory(f) \/ ArchiveAt(f) # NoArchive

FileNotFound == [status |-> 404, detail |-> <<"File not found">>]

\* FileResponse(path=str(file_path), media_type="application/zip",
\* filename=filename); sending it raises for a path that is not a regular
\* file, which the framework answers with its bare internal-server-error
FileResponse(f) ==
    IF IsDirectory(f)
    THEN [status |-> 500, detail |-> <<"Internal Server Error">>]
    ELSE [status |-> 200, media_type |-> "application/zip", filename |-> f,
          file |-> ArchiveAt(f)]

\* GET /api/v1/download/{filename}: download_project, start to end
Download ==
    /\ pc = "idle"
    /\ \E f \in Filenames :
        /\ filename' = f
        /\ response' = IF ~Exists(f) THEN FileNotFound ELSE FileResponse(f)
    /\ req' = NoRequest
    /\ gitIdx' = 1
    /\ file_count' = 0
    /\ git_repo_url' = None
    /\ exc' = NoExc
    /\ log' = <<>>
    /\ snapshot' = <<outputDir, projects, downloads>>
    /\ UNCHANGED <<pc, outputDir, projects, downloads>>
    /\ UNCHANGED <<pvars, gvars, cvars, lvars>>

Next ==
    \/ Receive
    \/ Validate
    \/ MkOutputDir
    \/ Scaffold
    \/ Customize
    \/ Count
    \/ MakeArchive
    \/ SkipPublish
    \/ LocalGit
    \/ Respond
    \/ Except
    \/ Download

Spec == Init /\ [][Next]_vars

----------------------------------------------------------------------------
(* Remote publish: push_agent_to_github *)

RECURSIVE RStrip(_, _)
\* s.rstrip(c)
RStrip(s, c) ==
    IF s # <<>> /\ s[Len(s)] = c THEN RStrip(SubSeq(s, 1, Len(s) - 1), c) ELSE s

RECURSIVE ReplaceAll(_, _, _)
\* s.replace(old, new) for a one-token old
ReplaceAll(s, old, new) ==
    IF s = <<>> THEN <<>>
    ELSE (IF Head(s) = old THEN new ELSE <<Head(s)>>) \o ReplaceAll(Tail(s), old, new)

DigitChars == <<"0", "1", "2", "3", "4", "5", "6", "7", "8", "9">>

\* str(n) for 0 <= n <= 9999: no padding
Format04dUnpadded(n) ==
    SubSeq(<<DigitChars[((n \div 1000) % 10) + 1], DigitChars[((n \div 100) % 10) + 1],
             DigitChars[((n \div 10) % 10) + 1], DigitChars[(n % 10) + 1]>>,
           IF n >= 1000 THEN 1 ELSE IF n >= 100 THEN 2 ELSE IF n >= 10 THEN 3 ELSE 4, 4)

\* f"{n:04d}" for 0 <= n <= 9999
Format04d(n) ==
    <<DigitChars[((n \div 1000) % 10) + 1], DigitChars[((n \div 100) % 10) + 1],
      DigitChars[((n \div 10) % 10) + 1], DigitChars[(n % 10) + 1]>>

\* random.randint(0, 9999): the largest suffix
MaxSuffix == 9999

\* the values random.randint(0, 9999) is drawn from here
Suffixes == {7, 42, MaxSuffix}

\* the branch parameter when the caller does not pass it
Omitted == <<"<omitted>">>

PushArgs ==
    [project : {[files |-> {"README.md", AgentPy, ".git/HEAD"}, agent |-> TemplateAgent]},
     agent_name : {<<"a", "-", "7">>},
     repo_name : {<<"agents">>},
     github_token : {None, <<>>, <<"ghp_token">>},
     env_token : {None, <<"env_token">>},
     github_org : {None, <<"acme">>},
     github_enterprise_url : {None, <<"https://", "ghe.corp", "/">>, <<"http://", "ghe.corp">>},
     branch : {Omitted, <<"dev">>}]

\* branch: str = "main"
Branch(a) == IF a.branch = Omitted THEN <<"main">> ELSE a.branch

\* token = github_token or os.getenv("GITHUB_TOKEN")
TokenOfEnvFirst(a) == OrElse(a.env_token, a.github_token)

TokenOf(a) == OrElse(a.github_token, a.env_token)

\* github_base: the enterprise URL without trailing slashes, or the public host
GithubBase(a) ==
    IF Truthy(a.github_enterprise_url)
    THEN RStrip(a.github_enterprise_url, "/")
    ELSE <<"https://", "github.com">>

\* _get_github_username: the API base the lookup goes to
ApiBase(a) ==
    IF Truthy(a.github_enterprise_url)
    THEN RStrip(a.github_enterprise_url, "/") \o <<"/api/v3">>
    ELSE <<"https://", "api.github.com">>

NeedsLookupAlways(a) == TRUE

\* if github_org: repo_owner = github_org, else the lookup
NeedsLookup(a) == ~Truthy(a.github_org)

\* the steps of the try block, in source order
PushOrderCommitLast ==
    <<"clone", "mkfolder", "copy", "git config user.name", "git config user.email",
      "git add", "git push", "git commit", "return">>

PushOrder ==
    <<"clone", "mkfolder", "copy", "git config user.name", "git config user.email",
      "git add", "git commit", "git push", "return">>

PushAfter(p) == PushOrder[(CHOOSE i \in 1..Len(PushOrder) : PushOrder[i] = p) + 1]

FsSteps == {"mkfolder", "copy"}

\* the argv of the subprocess.run of a step, or the file-system call of it
PushCommand(step) ==
    CASE step = "clone" -> <<"git", "clone">> \o loc.auth_clone_url \o <<"<temp_dir>/">> \o args.repo_name
      [] step = "git config user.name" -> <<"git", "config", "user.name", "Agent Starter Pack API">>
      [] step = "git config user.email" -> <<"git", "config", "user.email", "api@agent-starter-pack.local">>
      [] step = "git add" -> <<"git", "add">> \o loc.folder_name
      [] step = "git commit" -> <<"git", "commit", "-m", "Add agent: ">> \o loc.folder_name
      [] step = "git push" -> <<"git", "push", "origin">> \o Branch(args)
      [] step = "mkfolder" -> <<"mkdir", "<temp_dir>/">> \o args.repo_name \o <<"/">> \o loc.folder_name
      [] OTHER -> <<"copytree", "copy2">>

\* how a subprocess.run(check=True, capture_output=True) can end: exit 0, a
\* non-zero exit with text on stderr, a non-zero exit with nothing on stderr,
\* or the executable cannot be started
PushRunOutcomes == {"ok", "nonzero", "nonzero_quiet", "nostart"}

\* the stderr a failed command leaves
Stderr(step, outcome) == IF outcome = "nonzero" THEN <<"fatal: ", step, " failed">> ELSE <<>>

\* the exception a step raises for an outcome other than "ok"
PushStepError(step, outcome) ==
    CASE outcome \in {"nonzero", "nonzero_quiet"} ->
            [type |-> "CalledProcessError", text |-> CalledProcessText(PushCommand(step))]
      [] outcome = "nostart" ->
            [type |-> "FileNotFoundError", text |-> <<"No such file or directory: 'git'">>]
      [] OTHER -> [type |-> "OSError", text |-> <<step, ": I/O error">>]

\* the except clause of push_agent_to_github
PushCatch == "CalledProcessError"

\* error_output = e.stderr.decode() if e.stderr else str(e)
ErrorOutput(stderr, e) == IF stderr # <<>> THEN stderr ELSE e.text

\* what leaves the try block for an exception raised in it
PushRaised(stderr, e) ==
    IF Catches(PushCatch, e.type)
    THEN [kind |-> "raise", type |-> "RuntimeError",
          text |-> <<"Failed to push to GitHub: ">> \o ErrorOutput(stderr, e)]
    ELSE [kind |-> "raise", type |-> e.type, text |-> e.text]

PLogged(step, outcome, cmd, stderr) ==
    Append(plog, [step |-> step, outcome |-> outcome, cmd |-> cmd, stderr |-> stderr])

\* item.name == ".git": continue
IsGitMeta(f) == f = ".git/HEAD"

\* push_agent_to_github is called
PushCall ==
    /\ vpc = "idle"
    /\ \E a \in PushArgs : args' = a
    /\ vpc' = "token"
    /\ loc' = NoLoc
    /\ result' = [kind |-> "none"]
    /\ plog' = <<>>
    /\ UNCHANGED <<tempDir, cloned, remote, foreign>>
    /\ UNCHANGED <<hvars, gvars, cvars, lvars>>

\* token = ...; if not token: raise RuntimeError(...)
PushToken ==
    /\ vpc = "token"
    /\ IF Truthy(TokenOf(args))
       THEN /\ loc' = [loc EXCEPT !.token = TokenOf(args), !.github_base = GithubBase(args)]
            /\ vpc' = "owner"
            /\ result' = result
       ELSE /\ loc' = NoLoc
            /\ vpc' = "idle"
            /\ result' = [kind |-> "raise", type |-> "RuntimeError",
                          text |-> <<"GitHub token is required for push">>]
    /\ UNCHANGED <<args, tempDir, cloned, remote, foreign, plog>>
    /\ UNCHANGED <<hvars, gvars, cvars, lvars>>

\* if github_org: repo_owner = github_org
PushOwnerOrg ==
    /\ vpc = "owner"
    /\ ~NeedsLookup(args)
    /\ loc' = [loc EXCEPT !.repo_owner = args.github_org]
    /\ vpc' = "names"
    /\ UNCHANGED <<args, tempDir, cloned, remote, foreign, result, plog>>
    /\ UNCHANGED <<hvars, gvars, cvars, lvars>>

\* else: repo_owner = _get_github_username(token, github_enterprise_url):
\* one GET <api_base>/user with the bearer token; 200 gives the login, any
\* other status raises RuntimeError with the status and the body; the request
\* itself can fail
PushOwnerLookup ==
    /\ vpc = "owner"
    /\ NeedsLookup(args)
    /\ \E o \in {"200", "401", "neterr"} :
        /\ plog' = PLogged("GET /user", o,
                           <<"GET">> \o ApiBase(args) \o <<"/user", "Bearer ">> \o loc.token, <<>>)
        /\ IF o = "200"
           THEN /\ loc' = [loc EXCEPT !.repo_owner = <<"octocat">>]
                /\ vpc' = "names"
                /\ result' = result
           ELSE /\ loc' = NoLoc
                /\ vpc' = "idle"
                /\ result' =
                    IF o = "401"
                    THEN [kind |-> "raise", type |-> "RuntimeError",
                          text |-> <<"Failed to get GitHub username: ", "401", " ",
                                     "{\"message\": \"Bad credentials\"}">>]
                    ELSE [kind |-> "raise", type |-> "ConnectionError",
                          text |-> <<"connection failed">>]
    /\ UNCHANGED <<args, tempDir, cloned, remote, foreign>>
    /\ UNCHANGED <<hvars, gvars, cvars, lvars>>

\* clone_url, html_url, folder_name, and entering the TemporaryDirectory
PushNames ==
    /\ vpc = "names"
    /\ \E n \in Suffixes :
        LET clone_url == loc.github_base \o <<"/">> \o loc.repo_owner \o <<"/">>
                         \o args.repo_name \o <<".git">>
        IN  loc' = [loc EXCEPT
                !.clone_url = clone_url,
                !.html_url = loc.github_base \o <<"/">> \o loc.repo_owner \o <<"/">>
                             \o args.repo_name,
                !.folder_name = args.agent_name \o <<"-">> \o Format04d(n),
                !.auth_clone_url =
                    ReplaceAll(clone_url, "https://", <<"https://">> \o loc.token \o <<"@">>)]
    /\ tempDir' = TRUE
    /\ plog' = PLogged("mkdtemp", "ok", <<>>, <<>>)
    /\ vpc' = PushOrder[1]
    /\ UNCHANGED <<args, cloned, remote, foreign, result>>
    /\ UNCHANGED <<hvars, gvars, cvars, lvars>>

\* leaving the call with the temporary directory left behind
PushLeaveKeepTemp(r) ==
    /\ result' = r
    /\ vpc' = "idle"
    /\ loc' = NoLoc
    /\ tempDir' = tempDir
    /\ cloned' = cloned

\* leaving the with block: the temporary directory and the clone are removed
PushLeave(r) ==
    /\ result' = r
    /\ vpc' = "idle"
    /\ loc' = NoLoc
    /\ tempDir' = FALSE
    /\ cloned' = FALSE

\* the copy left the agent folder as the clone had it: the folder is on the
\* remote with this project's content
NothingToCommit == loc.folder_name \in remote /\ loc.folder_name \notin foreign

\* how a git command of the try block can end: git commit exits non-zero,
\* with its message on stdout, when nothing is staged
GitStepOutcomes(step) ==
    IF step = "git commit" /\ NothingToCommit
    THEN {"nonzero_quiet", "nostart"}
    ELSE PushRunOutcomes

\* one of the six git commands of the try block
PushGitStep ==
    /\ vpc \notin {"idle", "token", "owner", "names", "return"} \cup FsSteps
    /\ \E o \in GitStepOutcomes(vpc) :
        /\ plog' = PLogged(vpc, o, PushCommand(vpc), Stderr(vpc, o))
        /\ IF o = "ok"
           THEN /\ vpc' = PushAfter(vpc)
                /\ cloned' = (cloned \/ vpc = "clone")
                /\ remote' = IF vpc = "git push" THEN remote \cup {loc.folder_name} ELSE remote
                /\ foreign' = IF vpc = "git push" THEN foreign \ {loc.folder_name} ELSE foreign
                /\ UNCHANGED <<loc, tempDir, result>>
           ELSE /\ PushLeave(PushRaised(Stderr(vpc, o), PushStepError(vpc, o)))
                /\ UNCHANGED <<remote, foreign>>
    /\ UNCHANGED args
    /\ UNCHANGED <<hvars, gvars, cvars, lvars>>

\* agent_folder.mkdir(exist_ok=True), and the copy of every item of the
\* project but its .git directory
PushFsStep ==
    /\ vpc \in FsSteps
    /\ \E o \in {"ok", "oserror"} :
        /\ plog' = PLogged(vpc, o, PushCommand(vpc), <<>>)
        /\ IF o = "ok"
           THEN /\ vpc' = PushAfter(vpc)
                /\ loc' = IF vpc = "copy"
                          THEN [loc EXCEPT !.agent_folder =
                                    {f \in args.project.files : ~IsGitMeta(f)}]
                          ELSE loc
                /\ UNCHANGED <<tempDir, cloned, result>>
           ELSE PushLeave(PushRaised(<<>>, PushStepError(vpc, o)))
    /\ UNCHANGED <<args, remote, foreign>>
    /\ UNCHANGED <<hvars, gvars, cvars, lvars>>

\* return folder_name, f"{html_url}/tree/{branch}/{folder_name}"
PushReturn ==
    /\ vpc = "return"
    /\ PushLeave([kind |-> "return",
                  folder_name |-> loc.folder_name,
                  url |-> loc.html_url \o <<"/tree/">> \o Branch(args) \o <<"/">>
                          \o loc.folder_name])
    /\ UNCHANGED <<args, remote, foreign, plog>>
    /\ UNCHANGED <<hvars, gvars, cvars, lvars>>

\* the folders another client of the repository pushes
ForeignFolders == {<<"a", "-", "7", "-", "0", "0", "4", "2">>}

\* the repository is an existing one that others push to: between two calls
\* another client pushes a folder with content of its own
OtherPush ==
    /\ vpc = "idle"
    /\ \E f \in ForeignFolders :
        /\ f \notin foreign
        /\ remote' = remote \cup {f}
        /\ foreign' = foreign \cup {f}
    /\ UNCHANGED <<vpc, args, loc, tempDir, cloned, result, plog>>
    /\ UNCHANGED <<hvars, gvars, cvars, lvars>>

PushNext ==
    \/ PushCall
    \/ PushToken
    \/ PushOwnerOrg
    \/ PushOwnerLookup
    \/ PushNames
    \/ PushGitStep
    \/ PushFsStep
    \/ PushReturn
    \/ OtherPush

PushSpec == Init /\ [][PushNext]_vars

----------------------------------------------------------------------------
(* customize_agent_file on its own: it is applied to the shipped template  *)
(* for requests whose texts include the strings the function searches for. *)

CustDescriptions ==
    {<<"An agent that reports weather">>,
     <<"Weather \"pro\" agent">>,
     <<"See ", Marker, " in agent.py">>,
     <<"Not ">> \o InstructionBoilerplate}

CustPrompts ==
    {<<"You are a weather bot">>,
     <<"Never call ">> \o ToolsBoilerplate,
     <<"Answer after ", Marker>>}

CustTools ==
    {<<>>,
     <<Tool("get_forecast")>>,
     <<Tool("get_forecast"), Tool("get_tide")>>,
     <<Tool("get_tide"), Tool("get_forecast")>>,
     <<Tool("get_weather")>>}

CustRequests ==
    {[NoRequest EXCEPT !.agent_name = <<"a", "-", "7">>, !.description = d,
                       !.prompt = p, !.tools = t] :
        d \in CustDescriptions, p \in CustPrompts, t \in CustTools}

\* the template has been scaffolded and agent.py is not yet written back
CustInit ==
    /\ ServiceInit
    /\ AdapterIdle
    /\ genRequest = None
    /\ code = <<>>
    /\ custRequest \in CustRequests
    /\ content = <<>>

\* customize_agent_file(agent_py_path, request): read_text, the replacements,
\* write_text
CustomizeFile ==
    /\ content = <<>>
    /\ content' = Customized(TemplateAgent, custRequest)
    /\ UNCHANGED <<custRequest, gvars, hvars, pvars, lvars>>

CustNext == CustomizeFile

CustSpec == CustInit /\ [][CustNext]_vars

----------------------------------------------------------------------------
(* The template renderer: generate_agent_code (api/generator.py).           *)
(* The text is a list of lines joined by newlines; a line is a sequence of  *)
(* tokens. The request is used through the attributes the function reads.   *)

\* the longest env-var default value drawn, in characters
MaxDefaultLen == 2

\* one representative per character class of a default value: a decimal
\* digit, a sign, a digit that is not a decimal (superscript two), a letter
DefaultChars == {"5", "-", "SUPERSCRIPT TWO", "a"}

\* c.isdigit() of one character
IsDigitChar(c) == c \in {"0", "1", "2", "3", "4", "5", "6", "7", "8", "9", "SUPERSCRIPT TWO"}

\* s.isdigit(): at least one character and every character a digit
IsDigit(s) == s # <<>> /\ \A i \in 1..Len(s) : IsDigitChar(s[i])

\* the default values drawn: every string over DefaultChars up to
\* MaxDefaultLen, and the words True, False and true
DefaultValues ==
    UNION {[1..n -> DefaultChars] : n \in 0..MaxDefaultLen}
    \cup {<<"True">>, <<"False">>, <<"true">>}

\* env_var.name.lower()
Lower(name) ==
    CASE name = "MAX_RETRIES" -> "max_retries"
      [] name = "Debug" -> "debug"
      [] OTHER -> name

EnvVar(n, v, d) == [name |-> n, default_value |-> v, description |-> d]

ToolDefinition(n) ==
    [name |-> n, description |-> <<"does ", n>>, parameters |-> <<"query: str">>,
     implementation |-> <<"    return \"", n, " result\"">>]

GenTools ==
    {<<>>,
     <<ToolDefinition("get_forecast")>>,
     <<ToolDefinition("get_forecast"), ToolDefinition("get_tide")>>,
     <<ToolDefinition("get_tide"), ToolDefinition("get_forecast")>>,
     <<ToolDefinition("get_weather")>>}

GenEnvVars ==
    {<<>>}
    \cup {<<EnvVar("MAX_RETRIES", v, <<>>)>> : v \in DefaultValues}
    \cup {<<EnvVar("Debug", <<"False">>, <<"verbose output">>),
            EnvVar("MAX_RETRIES", <<"5">>, <<>>)>>}

GenRequests ==
    [project_name : {<<"weather">>},
     agent_type : {"adk_a2a_base", "adk_base"},
     tools : GenTools,
     env_vars : GenEnvVars,
     agent_description : {None, <<"An agent that reports weather">>},
     agent_instruction : {<<>>, <<"You are a weather bot">>}]

\* generate_tool_function(tool)
generate_tool_function(tool) ==
    <<"\n", "def ", tool.name, "(">> \o tool.parameters \o <<") -> str:", "\n", "    \"\"\"">>
    \o tool.description \o <<"\"\"\"", "\n">> \o tool.implementation \o <<"\n">>

\* the default is quoted unless isdigit() or one of "True", "False"
QuotedDefault(v) ==
    IF ~IsDigit(v) /\ v \notin {<<"True">>, <<"False">>} THEN <<"\"">> \o v \o <<"\"">> ELSE v

\* the line emitted for one custom environment variable
EnvVarLine(e) ==
    <<Lower(e.name), " = os.getenv(\"", e.name, "\", ">> \o QuotedDefault(e.default_value)
    \o <<")">> \o (IF e.description # <<>> THEN <<"  # ">> \o e.description ELSE <<>>)

\* the lines of the two default tool functions
DefaultToolLines ==
    << <<"def ", "get_weather", "(query: str) -> str:">>,
       <<"    \"\"\"Simulates a web search. ... return \"It's 90 degrees and sunny.\"">>,
       <<>>,
       <<>>,
       <<"def ", "get_current_time", "(query: str) -> str:">>,
       <<"    \"\"\"Simulates getting the current time for a city. ... {now.strftime(...)}\"">>,
       <<>> >>

\* tool_names: the defaults whatever the request lists
GenToolNamesDefault(r) == DefaultTools

\* tool_names = [tool.name for tool in request.tools] if request.tools else
\* ["get_weather", "get_current_time"]
GenToolNames(r) ==
    IF r.tools # <<>> THEN [i \in 1..Len(r.tools) |-> r.tools[i].name] ELSE DefaultTools

\* generate_agent_code(request): code_parts in source order, joined by "\n"
generate_agent_code(r) ==
    LET header == << <<"# Copyright 2025 Google LLC ... limitations under the License.">>,
                     <<>>,
                     <<"\"\"\"Generated agent for ">> \o r.project_name \o <<".\"\"\"">>,
                     <<>>,
                     <<"import os">> >>
        datetimeImports ==
            IF r.tools = <<>>
            THEN << <<"import datetime">>, <<"from zoneinfo import ZoneInfo">> >>
            ELSE <<>>
        typeImports ==
            IF r.agent_type = "adk_a2a_base"
            THEN << <<"from google.adk.agents import Agent">>,
                    <<"from google.adk.models.lite_llm import LiteLlm">>,
                    <<"from google.adk.a2a.utils.agent_to_a2a import to_a2a">>,
                    <<>>, <<"from dotenv import load_dotenv">>, <<"load_dotenv()">>, <<>> >>
            ELSE IF r.agent_type = "adk_base"
            THEN << <<"from google.adk.agents import Agent">>,
                    <<"from google.adk.models.lite_llm import LiteLlm">>,
                    <<>>, <<"from dotenv import load_dotenv">>, <<"load_dotenv()">>, <<>> >>
            ELSE <<>>
        environment ==
            << <<"# Get LLM configuration from environment variables">>,
               <<"llm_endpoint = os.getenv(\"LLM_ENDPOINT_URL\", \"http://localhost:8001/v1\")">>,
               <<"llm_model = os.getenv(\"LLM_MODEL_NAME\", \"openai/llama-3.1-8b\")">>,
               <<"llm_api_key = os.getenv(\"LLM_API_KEY\", \"not-needed\")">> >>
        customEnvironment == [i \in 1..Len(r.env_vars) |-> EnvVarLine(r.env_vars[i])]
        llm == << <<>>, <<"# Use ADK's built-in LiteLLM support! ...">>,
                  <<"llm = LiteLlm(...)">>, <<>> >>
        tools ==
            IF r.tools # <<>>
            THEN [i \in 1..Len(r.tools) |-> generate_tool_function(r.tools[i])]
            ELSE DefaultToolLines
        description ==
            OrElse(r.agent_description, DefaultDescription)
        instruction ==
            OrElse(r.agent_instruction, DefaultInstruction)
        agent ==
            << IF r.agent_type = "adk_a2a_base"
               THEN <<"# Create ADK agent with A2A protocol support">>
               ELSE <<"# Create ADK agent">>,
               <<"root_agent = Agent(">>,
               <<"    name=\"root_agent\",">>,
               <<"    model=llm,">>,
               <<"    description=\"">> \o description \o <<"\",">>,
               <<"    instruction=\"">> \o instruction \o <<"\",">>,
               <<"    tools=[">> \o Join([i \in 1..Len(GenToolNames(r)) |->
                                            <<GenToolNames(r)[i]>>], <<", ">>) \o <<"],">>,
               <<")">>,
               <<>> >>
        app ==
            IF r.agent_type = "adk_a2a_base"
            THEN << <<"# Convert ADK agent to A2A application ...">>,
                    <<"a2a_app = to_a2a(root_agent, port=int(os.getenv(\"PORT\", \"8001\")))">>,
                    <<"app = a2a_app">>, <<>> >>
            ELSE << <<"app = root_agent">>, <<>> >>
    IN  Join(header \o datetimeImports \o << <<>> >> \o typeImports \o environment
             \o customEnvironment \o llm \o tools \o agent \o app, <<"\n">>)

\* the renderer is about to be applied to a request
GenInit ==
    /\ ServiceInit
    /\ AdapterIdle
    /\ genRequest \in GenRequests
    /\ code = <<>>
    /\ custRequest = None
    /\ content = <<>>

\* code = generate_agent_code(request)
GenerateAgentCode ==
    /\ code = <<>>
    /\ code' = generate_agent_code(genRequest)
    /\ UNCHANGED <<genRequest, cvars, hvars, pvars, lvars>>

GenNext == GenerateAgentCode

GenSpec == GenInit /\ [][GenNext]_vars

----------------------------------------------------------------------------
(* Validation on its own: the handler is given every name over Chars of up *)
(* to MaxNameLen characters and runs up to the end of its validation.      *)

ValidateStart ==
    /\ pc = "idle"
    /\ req = NoRequest
    /\ \E n \in Names : req' = [NoRequest EXCEPT !.agent_name = n]
    /\ pc' = Order[1]
    /\ UNCHANGED <<outputDir, projects, downloads, gitIdx, file_count,
                   git_repo_url, exc, response, log, snapshot, filename>>
    /\ UNCHANGED <<pvars, gvars, cvars, lvars>>

ValidateNext ==
    \/ ValidateStart
    \/ Validate
    \/ Except

ValidateSpec == Init /\ [][ValidateNext]_vars

----------------------------------------------------------------------------
(* The handler and the remote publish in one process: a generation request *)
(* and a call of push_agent_to_github each run to completion, one at a     *)
(* time, in any order.                                                     *)

\* the requests of this composition: one accepted name, with and without
\* the local publish
ServiceRequests ==
    {r \in Requests :
        /\ r.agent_name = <<"a", "-", "7">>
        /\ r.tools = <<>>
        /\ r.git_repo_name = None
        /\ r.github_token = None
        /\ r.github_org = None
        /\ r.github_enterprise_url = None}

\* the calls of this composition: a token is given, the owner is the
\* organization or is looked up
ServiceArgs ==
    {a \in PushArgs :
        /\ a.github_token = <<"ghp_token">>
        /\ a.env_token = None
        /\ a.github_enterprise_url = None
        /\ a.branch = Omitted}

ServiceNext ==
    \/ vpc = "idle" /\ Receive /\ req' \in ServiceRequests
    \/ Validate
    \/ MkOutputDir
    \/ Scaffold
    \/ Customize
    \/ Count
    \/ MakeArchive
    \/ SkipPublish
    \/ LocalGit
    \/ Respond
    \/ Except
    \/ pc = "idle" /\ PushCall /\ args' \in ServiceArgs
    \/ PushToken
    \/ PushOwnerOrg
    \/ PushOwnerLookup
    \/ PushNames
    \/ PushGitStep
    \/ PushFsStep
    \/ PushReturn

ServiceSpec == Init /\ [][ServiceNext]_vars

----------------------------------------------------------------------------
(* The model adapters of the on-premise template: LiteLLMAdapter           *)
(* (app_utils/litellm_adapter.py) and OpenAICompatibleLlm                  *)
(* (app_utils/openai_llm.py). generate_content_async and the two response  *)
(* converters have the same statements in both classes. Values of Python's *)
(* optional booleans and enums are written as their literals.              *)

\* the longest upstream chunk stream
MaxChunks == 3

\* the calls: generate_content_async(llm_request, stream) of either class
LlmCalls == [adapter : {"LiteLLMAdapter", "OpenAICompatibleLlm"}, stream : BOOLEAN]

\* the chunks an upstream stream can deliver: without choices, or with one
\* choice of a delta and a finish reason (None while the turn goes on). The
\* delta's content is absent or a text; its tool calls are absent or empty,
\* one call without a function, or one call of function f with arguments "{}"
Chunks ==
    {[choices |-> <<>>]}
    \cup {[choices |-> <<c>>] :
            c \in [delta : [content : {None, <<"Hi">>},
                           tool_calls : {<<>>, <<[function |-> None]>>,
                                         <<[function |-> <<"f", "{}">>]>>}],
                   finish_reason : {None, <<"stop">>}]}

\* the results a completed non-streaming API call can return; each of its
\* tool calls has a function
Completions ==
    {[choices |-> <<>>]}
    \cup {[choices |-> <<c>>] :
            c \in [message : [content : {None, <<"Hi">>},
                             tool_calls : {<<>>, <<[function |-> <<"f", "{}">>]>>}],
                   finish_reason : {<<"stop">>, <<"length">>, <<"function_call">>}]}

\* the exceptions the API call and the iteration of its stream can raise
ApiErrors == {[type |-> "APIError", text |-> <<"Connection error.">>]}

NoContent == [role |-> "none", parts |-> <<>>]

\* parts = []; the text is appended when truthy
TextParts(text) ==
    IF Truthy(text) THEN <<[kind |-> "text", value |-> text]>> ELSE <<>>

\* for tool_call in delta.tool_calls: if tool_call.function: parts.append(...)
StreamCallParts(tool_calls) ==
    LET called == SelectSeq(tool_calls, LAMBDA t : Truthy(t.function))
    IN  [i \in 1..Len(called) |-> [kind |-> "function_call", value |-> called[i].function]]

\* how building the FunctionCall objects of these tool calls and the Content
\* that holds them can end: the types are the library's, and a FunctionCall
\* is not a Part
ConstructOutcomes(tool_calls) ==
    IF \E i \in 1..Len(tool_calls) : Truthy(tool_calls[i].function)
    THEN {"ok", "rejected"}
    ELSE {"ok"}

\* finish_reason_map.get(choice.finish_reason, FinishReason.STOP)
FinishReasonOf(reason) ==
    CASE reason = <<"stop">> -> "STOP"
      [] reason = <<"length">> -> "MAX_TOKENS"
      [] reason = <<"tool_calls">> -> "STOP"
      [] reason = <<"content_filter">> -> "SAFETY"
      [] OTHER -> "STOP"

\* _convert_streaming_chunk_to_response: the responses the chunk is converted
\* to, none when the method returns None
StreamingResponses(chunk) ==
    IF chunk.choices = <<>>
    THEN <<>>
    ELSE LET choice == chunk.choices[1]
             parts == TextParts(choice.delta.content)
                      \o StreamCallParts(choice.delta.tool_calls)
             is_final == choice.finish_reason # None
         IN  IF parts = <<>>
             THEN <<>>
             ELSE <<[content |-> [role |-> "model", parts |-> parts],
                     partial |-> IF is_final THEN "False" ELSE "True",
                     turn_complete |-> IF is_final THEN "True" ELSE "False",
                     finish_reason |-> IF is_final THEN "STOP" ELSE "None",
                     error_code |-> "None",
                     error_message |-> None]>>

\* _convert_response_to_llm_response
ConvertedResponse(choice) ==
    LET tool_calls == choice.message.tool_calls
        parts == TextParts(choice.message.content)
                 \o [i \in 1..Len(tool_calls) |->
                        [kind |-> "function_call", value |-> tool_calls[i].function]]
    IN  [content |-> IF parts = <<>> THEN NoContent
                     ELSE [role |-> "model", parts |-> parts],
         partial |-> "False",
         turn_complete |-> "True",
         finish_reason |-> FinishReasonOf(choice.finish_reason),
         error_code |-> "None",
         error_message |-> None]

\* LlmResponse(content=None, error_code="api_error", error_message=str(e),
\* partial=False)
ErrorResponse(e) ==
    [content |-> NoContent,
     partial |-> "False",
     turn_complete |-> "None",
     finish_reason |-> "None",
     error_code |-> "api_error",
     error_message |-> e.text]

\* the except clause of generate_content_async
AdapterCatchApiErrorOnly == "APIError"

AdapterCatch == "Exception"

\* generate_content_async is called: the request is converted and the
\* parameters of the API call are prepared
LlmCall ==
    /\ apc = "idle"
    /\ \E c \in LlmCalls : call' = c
    /\ apc' = "api"
    /\ received' = <<>>
    /\ yielded' = <<>>
    /\ raised' = NoExc
    /\ propagated' = FALSE
    /\ UNCHANGED <<hvars, pvars, gvars, cvars>>

\* an exception is raised inside the try block
RaisedInTry(e) ==
    /\ raised' = e
    /\ apc' = "except"
    /\ UNCHANGED <<call, received, yielded, propagated>>

\* await litellm.acompletion(**kwargs) / self._client.chat.completions
\* .create(**kwargs); without stream the result is converted and yielded
LlmApi ==
    /\ apc = "api"
    /\ \/ \E e \in ApiErrors : RaisedInTry(e)
       \/ /\ call.stream
          /\ apc' = "iterate"
          /\ UNCHANGED <<call, received, yielded, raised, propagated>>
       \/ /\ ~call.stream
          /\ \E r \in Completions :
                IF r.choices = <<>>
                THEN RaisedInTry([type |-> "IndexError",
                                  text |-> <<"list index out of range">>])
                ELSE \E o \in ConstructOutcomes(r.choices[1].message.tool_calls) :
                        IF o = "ok"
                        THEN /\ yielded' = Append(yielded, ConvertedResponse(r.choices[1]))
                             /\ apc' = "idle"
                             /\ UNCHANGED <<call, received, raised, propagated>>
                        ELSE RaisedInTry([type |-> "ValidationError",
                                          text |-> <<"1 validation error for FunctionCall">>])
    /\ UNCHANGED <<hvars, pvars, gvars, cvars>>

\* async for chunk in response: the stream delivers a chunk; it is converted
\* and the response, if any, is yielded
LlmChunk ==
    /\ apc = "iterate"
    /\ Len(received) < MaxChunks
    /\ \E chunk \in Chunks :
        /\ received' = Append(received, chunk)
        /\ \E o \in (IF chunk.choices = <<>> THEN {"ok"}
                     ELSE ConstructOutcomes(chunk.choices[1].delta.tool_calls)) :
            IF o = "ok"
            THEN /\ yielded' = yielded \o StreamingResponses(chunk)
                 /\ apc' = apc
                 /\ UNCHANGED <<call, raised, propagated>>
            ELSE /\ raised' = [type |-> "ValidationError",
                                text |-> <<"1 validation error for FunctionCall">>]
                 /\ apc' = "except"
                 /\ UNCHANGED <<call, yielded, propagated>>
    /\ UNCHANGED <<hvars, pvars, gvars, cvars>>

\* the stream ends: the loop and the generator end
LlmStreamEnd ==
    /\ apc = "iterate"
    /\ apc' = "idle"
    /\ UNCHANGED <<call, received, yielded, raised, propagated>>
    /\ UNCHANGED <<hvars, pvars, gvars, cvars>>

\* the stream raises instead of delivering a chunk
LlmStreamError ==
    /\ apc = "iterate"
    /\ \E e \in ApiErrors : RaisedInTry(e)
    /\ UNCHANGED <<hvars, pvars, gvars, cvars>>

\* except Exception as e: yield LlmResponse(... error_code="api_error" ...);
\* an exception the clause does not catch leaves the generator
LlmExcept ==
    /\ apc = "except"
    /\ IF Catches(AdapterCatch, raised.type)
       THEN /\ yielded' = Append(yielded, ErrorResponse(raised))
            /\ propagated' = FALSE
       ELSE /\ yielded' = yielded
            /\ propagated' = TRUE
    /\ apc' = "idle"
    /\ UNCHANGED <<call, received, raised>>
    /\ UNCHANGED <<hvars, pvars, gvars, cvars>>

AdapterNext ==
    \/ LlmCall
    \/ LlmApi
    \/ LlmChunk
    \/ LlmStreamEnd
    \/ LlmStreamError
    \/ LlmExcept

AdapterSpec == Init /\ [][AdapterNext]_vars

----------------------------------------------------------------------------
(* Properties of the generate-project handler *)

GitSteps == {GitCommands[i] : i \in 1..Len(GitCommands)}

Ok(step) == [step |-> step, outcome |-> "ok"]

\* the log positions before position i that hold entry e
Before(i, e) == {j \in 1..(i - 1) : log[j] = e}

\* a request has been answered
Answered == pc = "idle" /\ response # NoResponse /\ filename = None

\* the agent source no longer holds the boilerplate description and instruction
Substituted(agent, request) ==
    /\ Contains(agent, <<"description=\"">> \o request.description \o <<"\"">> \o FieldSep
                        \o <<"instruction=\"">> \o request.prompt \o <<"\"">> \o FieldSep)
    /\ ~Contains(agent, DefaultDescription)
    /\ ~Contains(agent, DefaultInstruction)

\* some git command of the local publish did not end with exit 0
GitFailed == \E i \in 1..Len(log) : log[i].step \in GitSteps /\ log[i].outcome # "ok"

GitExitedNonZero ==
    \E i \in 1..Len(log) : log[i].step \in GitSteps /\ log[i].outcome = "nonzero"

\* C1: in every run of the handler the archive step starts only after the
\* scaffolding and the customization of the agent source have completed, and
\* a git command of the publish step only after the archive step; the archive
\* written and the tree published hold the request's description and prompt,
\* not the boilerplate.
C1_ArchiveAndPublishAfterCustomize ==
    /\ \A i \in 1..Len(log) :
        log[i].step = "archive" =>
            /\ Before(i, Ok("scaffold")) # {}
            /\ Before(i, Ok("customize")) # {}
    /\ \A i \in 1..Len(log) :
        log[i].step \in GitSteps => Before(i, Ok("archive")) # {}
    /\ (\E i \in 1..Len(log) : log[i] = Ok("archive")) =>
            Substituted(downloads[req.agent_name].agent, req)
    /\ (\E i \in 1..Len(log) : log[i].step \in GitSteps) =>
            Substituted(projects[req.agent_name].agent, req)

\* a request was answered with success after all five git commands ran
C1_Witness ==
    /\ Answered
    /\ response.status = 200
    /\ log[Len(log)] = Ok("git commit")

Digits == {"0", "1", "2", "3", "4", "5", "6", "7", "8", "9"}

\* f is <name>-dddd with dddd four decimal digits
IsFolderName(f, name) ==
    /\ Len(f) = Len(name) + 5
    /\ SubSeq(f, 1, Len(name)) = name
    /\ f[Len(name) + 1] = "-"
    /\ \A i \in (Len(name) + 2)..(Len(name) + 5) : f[i] \in Digits

\* u is <host>/<owner>/<repo>/tree/<branch>/<name>-dddd
IsFolderUrl(u, name) ==
    \E k \in 1..Len(u) :
        /\ k >= 6
        /\ u[k - 4] = "/"
        /\ u[k - 2] = "/"
        /\ u[k] = "/tree/"
        /\ k + 3 <= Len(u)
        /\ u[k + 2] = "/"
        /\ IsFolderName(SubSeq(u, k + 3, Len(u)), name)

\* C2: a successful response to a request with create_git_repo true, a token
\* and a repository name, every step of which succeeded, carries a
\* git_repo_url of the form <host>/<owner>/<repo>/tree/<branch>/<agent_name>-dddd.
C2_GitRepoUrlIsRemoteFolder ==
    ( /\ Answered
      /\ response.status = 200
      /\ req.create_git_repo
      /\ Truthy(req.github_token)
      /\ Truthy(req.git_repo_name)
      /\ ~GitFailed )
    => IsFolderUrl(response.git_repo_url, req.agent_name)

\* C3: whatever way a git command of the local publish fails, the failure
\* does not leave the publish call, and the response reports success with the
\* download URL and the file count and no repository URL.
C3_GitFailureNeverRaises ==
    GitFailed =>
        /\ pc # "except"
        /\ Answered =>
            /\ response.status = 200
            /\ response.git_repo_url = None
            /\ response.download_url = DownloadUrl(req.agent_name)
            /\ response.files_generated = file_count

\* C4: a request whose agent_name fails validation is answered with a
\* client-error (4xx) status.
C4_RejectedIsClientError ==
    (Answered /\ ~NameCheck(req.agent_name)) => response.status \in 400..499

\* every character of the name is in [A-Za-z0-9_-]
AllowedName(name) == \A i \in 1..Len(name) : name[i] \in AsciiAlnum \cup {"-", "_"}

\* C5: validation accepts a name if and only if every character of it is in
\* [A-Za-z0-9_-].
C5_AcceptsExactlyAllowedNames ==
    (pc \notin {"idle", "validate"}) =>
        ((pc # "except") <=> AllowedName(req.agent_name))

\* the request in hand was rejected by the agent-name validation
RejectedByValidation ==
    exc = [type |-> "HTTPException", text |-> HTTPExceptionText("400", ValidationDetail)]

\* C6: when validation rejects a request, the handler has performed no side
\* effect for it: no step ran, and the projects directory, the project trees
\* and the archives are as they were when the request arrived.
C6_RejectedHasNoSideEffects ==
    RejectedByValidation =>
        /\ log = <<>>
        /\ <<outputDir, projects, downloads>> = snapshot
        /\ plog = <<>>

\* a request was rejected and answered while an earlier request's tree and
\* archive exist
C6_Witness ==
    /\ Answered
    /\ RejectedByValidation
    /\ \E n \in ReqNames : downloads[n] # NoArchive /\ projects[n] # NoTree

\* C7 (as amended): an exception that propagates out of a generation-path
\* step to the handler is answered with status 500 and the detail
\* "Project generation failed: " followed by the exception text; a request
\* without such an exception is answered with success, and the non-zero exit
\* of a git command of the local publish is absorbed by the publish call: the
\* response is a success without a repository URL.
C7_PropagatedErrorsBecome500 ==
    Answered =>
        /\ exc # NoExc =>
            response = [status |-> 500,
                        detail |-> <<"Project generation failed: ">> \o exc.text]
        /\ exc = NoExc => response.status = 200
        /\ (exc = NoExc /\ GitExitedNonZero) => response.git_repo_url = None

\* the publish step raised an error the publish call does not absorb, and the
\* request was answered
C7_Witness ==
    /\ Answered
    /\ exc.type = "FileNotFoundError"
    /\ response.status = 500

\* C7 (as stated): every error raised on the generation path, publishing
\* included, is answered with status 500.
C7_EveryErrorBecomes500 ==
    (Answered /\ \E i \in 1..Len(log) : log[i].outcome # "ok") => response.status = 500

----------------------------------------------------------------------------
(* Properties of the remote publish *)

\* the steps of the remote publish in the order the claim gives
ExpectedPushSteps ==
    <<"clone", "mkfolder", "copy", "git config user.name", "git config user.email",
      "git add", "git commit", "git push">>

\* the entries of plog made inside the try block
TrySteps == SelectSeq(plog, LAMBDA e : e.step \notin {"GET /user", "mkdtemp"})

\* the account lookups the call has made
Lookups == SelectSeq(plog, LAMBDA e : e.step = "GET /user")

\* push_agent_to_github has been called
PushCalled == args # NoArgs

Falsy(x) == x = None \/ x = <<>>

\* C9: the token is the explicit parameter when given, else the GITHUB_TOKEN
\* value; with neither, the call raises before any lookup, temporary
\* directory, clone or other external step.
C9_TokenRequired ==
    /\ (PushCalled /\ Falsy(args.github_token) /\ Falsy(args.env_token)) =>
        /\ vpc \in {"token", "idle"}
        /\ plog = <<>>
        /\ ~tempDir
        /\ ~cloned
        /\ vpc = "idle" =>
            result = [kind |-> "raise", type |-> "RuntimeError",
                      text |-> <<"GitHub token is required for push">>]
    /\ (vpc \notin {"idle", "token"}) =>
        /\ ~Falsy(loc.token)
        /\ loc.token = IF Falsy(args.github_token) THEN args.env_token ELSE args.github_token

\* a call with an empty explicit token and no environment value has ended
\* with the error, while an earlier call's folder is on the remote
C9_Witness ==
    /\ vpc = "idle"
    /\ args.github_token = <<>>
    /\ args.env_token = None
    /\ result.kind = "raise"
    /\ remote # {}

\* C10: with an organization name the owner is that name and no lookup is
\* made; without one exactly one authenticated GET /user is made before
\* anything else and the owner is the login it returns; a non-200 answer ends
\* the call with an error that carries the response body, before the
\* temporary directory is created and before any git command.
C10_OwnerResolution ==
    /\ ~Falsy(args.github_org) =>
        /\ Lookups = <<>>
        /\ (loc.repo_owner # None) => loc.repo_owner = args.github_org
    /\ Falsy(args.github_org) =>
        /\ Len(Lookups) <= 1
        /\ (loc.repo_owner # None \/ plog # <<>>) =>
            /\ Len(Lookups) = 1
            /\ plog[1] = Lookups[1]
        /\ (loc.repo_owner # None) =>
            /\ Lookups[1].outcome = "200"
            /\ loc.repo_owner = <<"octocat">>
    /\ \A i \in 1..Len(Lookups) :
        Lookups[i].cmd = <<"GET">> \o ApiBase(args) \o <<"/user", "Bearer ">>
                         \o (IF Falsy(args.github_token) THEN args.env_token
                             ELSE args.github_token)
    /\ (Lookups # <<>> /\ Lookups[1].outcome = "401") =>
        /\ vpc = "idle"
        /\ plog = Lookups
        /\ ~tempDir
        /\ ~cloned
        /\ result.kind = "raise"
        /\ result.type = "RuntimeError"
        /\ result.text[Len(result.text)] = "{\"message\": \"Bad credentials\"}"

\* a call without an organization name ended on a 401 answer of the lookup
C10_Witness ==
    /\ vpc = "idle"
    /\ Falsy(args.github_org)
    /\ Len(plog) = 1
    /\ plog[1].outcome = "401"
    /\ result.kind = "raise"

\* the value of a string of decimal digits
DigitValue(d) == CHOOSE v \in 0..9 : DigitChars[v + 1] = d

\* every suffix of 0..MaxSuffix is formatted as exactly four decimal digits
\* whose value is the suffix
FourDigitsForEverySuffix ==
    \A n \in 0..MaxSuffix :
        LET f == Format04d(n)
        IN  /\ Len(f) = 4
            /\ \A i \in 1..4 : f[i] \in Digits
            /\ DigitValue(f[1]) * 1000 + DigitValue(f[2]) * 100
               + DigitValue(f[3]) * 10 + DigitValue(f[4]) = n

\* s without its trailing slashes
WithoutTrailingSlashes(s) ==
    LET k == CHOOSE j \in 0..Len(s) :
                /\ j = 0 \/ s[j] # "/"
                /\ \A i \in (j + 1)..Len(s) : s[i] = "/"
    IN  SubSeq(s, 1, k)

\* the entries of the steps of the try block that succeeded at step s
OkEntries(s) == {i \in 1..Len(plog) : plog[i].step = s /\ plog[i].outcome = "ok"}

\* C11: a call that returns gives (folder_name, url) with folder_name
\* <agent_name>-dddd, dddd exactly four decimal digits for every suffix of
\* 0..9999, and url <base>/<owner>/<repo>/tree/<branch>/<folder_name>, base
\* the enterprise URL without trailing slashes or https://github.com, branch
\* "main" when not given; folder_name is the folder that was created, staged
\* and named in the commit message.
C11_ReturnsFolderAndUrl ==
    /\ FourDigitsForEverySuffix
    /\ (vpc = "idle" /\ result.kind = "return") =>
        /\ IsFolderName(result.folder_name, args.agent_name)
        /\ result.url =
            (IF Falsy(args.github_enterprise_url) THEN <<"https://", "github.com">>
             ELSE WithoutTrailingSlashes(args.github_enterprise_url))
            \o <<"/">> \o (IF Falsy(args.github_org) THEN <<"octocat">> ELSE args.github_org)
            \o <<"/">> \o args.repo_name \o <<"/tree/">>
            \o (IF args.branch = Omitted THEN <<"main">> ELSE args.branch)
            \o <<"/">> \o result.folder_name
        /\ \E i \in OkEntries("mkfolder") :
            plog[i].cmd = <<"mkdir", "<temp_dir>/">> \o args.repo_name \o <<"/">>
                          \o result.folder_name
        /\ \E i \in OkEntries("git add") :
            plog[i].cmd = <<"git", "add">> \o result.folder_name
        /\ \E i \in OkEntries("git commit") :
            plog[i].cmd = <<"git", "commit", "-m", "Add agent: ">> \o result.folder_name
        /\ result.folder_name \in remote

\* a call with an enterprise URL ending in a slash and no branch returned a
\* folder whose suffix needed zero padding
C11_Witness ==
    /\ vpc = "idle"
    /\ result.kind = "return"
    /\ args.github_enterprise_url = <<"https://", "ghe.corp", "/">>
    /\ args.branch = Omitted
    /\ result.folder_name = args.agent_name \o <<"-", "0", "0", "0", "7">>

\* the temporary directory of the current call was created
TempDirCreated == \E i \in 1..Len(plog) : plog[i].step = "mkdtemp"

\* C12: once the call has returned or raised, at whichever step, the
\* temporary directory and the clone in it no longer exist.
C12_TempDirGoneAfterCall ==
    /\ vpc = "idle" => (~tempDir /\ ~cloned)
    /\ tempDir <=> (vpc \notin {"idle", "token", "owner", "names"})
    /\ cloned => tempDir

\* a call whose clone succeeded ended with an error that the except clause
\* does not handle: the copy into the clone failed
C12_Witness ==
    /\ vpc = "idle"
    /\ TempDirCreated
    /\ OkEntries("clone") # {}
    /\ result.kind = "raise"
    /\ result.type = "OSError"
    /\ plog[Len(plog)].step = "copy"

----------------------------------------------------------------------------
(* Properties of the handler, continued *)

\* C16: a request with create_git_repo false that is answered with success
\* ran no publish step, and its response has project_name equal to the agent
\* name, download_url "/downloads/<agent_name>.zip", no git_repo_url, and
\* files_generated equal to the number of files the materializer counted.
C16_NoPublishResponse ==
    (Answered /\ response.status = 200 /\ ~req.create_git_repo) =>
        /\ \A i \in 1..Len(log) : log[i].step \notin GitSteps
        /\ ".git/HEAD" \notin projects[req.agent_name].files
        /\ response.project_name = req.agent_name
        /\ response.download_url = <<"/downloads/">> \o req.agent_name \o <<".zip">>
        /\ response.git_repo_url = None
        /\ response.git_folder_name = None
        /\ response.files_generated = Cardinality(projects[req.agent_name].files)
        /\ response.files_generated > 0

\* a request with tools and create_git_repo false was answered with success
C16_Witness ==
    /\ Answered
    /\ response.status = 200
    /\ ~req.create_git_repo
    /\ req.tools # <<>>
    /\ log[Len(log)] = Ok("archive")

\* a file with that name exists in the downloads directory
FileInDownloads(f) == \E n \in ReqNames : f = n \o <<".zip">> /\ downloads[n] # NoArchive

\* C17: a download request is answered with the file when a file with that
\* name exists in the downloads directory and with 404 otherwise; after a
\* generation for an agent name succeeded its archive exists, and no step
\* removes an archive.
C17_DownloadFileOr404 ==
    /\ (pc = "idle" /\ filename # None) =>
        IF FileInDownloads(filename)
        THEN /\ response.status = 200
             /\ response.file \in {downloads[n] : n \in ReqNames}
             /\ response.file.root \o <<".zip">> = filename
        ELSE response.status = 404
    /\ (Answered /\ response.status = 200) => downloads[req.agent_name] # NoArchive
    /\ \A n \in ReqNames : (snapshot[3][n] # NoArchive) => (downloads[n] # NoArchive)

\* C18: when scaffolding fails, generate_project raises an error that carries
\* the engine's diagnostic text; customization, counting, archiving and
\* publishing do not run, no archive is written or replaced, and the request
\* is answered with a generation failure.
C18_ScaffoldFailureStopsAll ==
    \A i \in 1..Len(log) :
        (log[i].step = "scaffold" /\ log[i].outcome # "ok") =>
            /\ i = Len(log)
            /\ pc \in {"except", "idle"}
            /\ exc.type = "RuntimeError"
            /\ \E d \in {<<"cookiecutter diagnostic">>,
                         <<"Error: \"">> \o req.agent_name \o <<"\" directory already exists">>} :
                /\ exc.text = <<"Failed to create project: ">> \o d
                /\ pc = "idle" =>
                    response = [status |-> 500,
                                detail |-> <<"Project generation failed: ",
                                             "Failed to create project: ">> \o d]
            /\ projects = snapshot[2]
            /\ downloads = snapshot[3]

\* a request whose scaffolding failed was answered while an earlier request's
\* archive is in the downloads directory
C18_Witness ==
    /\ Answered
    /\ log # <<>>
    /\ log[Len(log)] = [step |-> "scaffold", outcome |-> "fail"]
    /\ downloads[req.agent_name] # NoArchive

\* C19: requests share no mutable state: the project directory a request
\* works in is its own, not one that another request has written.
C19_RequestsShareNoTree ==
    (pc = "scaffold") => projects[req.agent_name] = snapshot[2][req.agent_name]
                         /\ snapshot[2][req.agent_name] = NoTree

\* no step of the request failed for a reason outside the service
NoOutsideFailure ==
    /\ \A i \in 1..Len(log) : log[i].outcome \in {"ok", "exists"}
    /\ exc.type # "ValueError"

\* C20: a request for an agent name that already has an archive completes
\* successfully, and the archive served afterwards is its own: it silently
\* overwrites the earlier archive.
C20_LaterRequestOverwrites ==
    ( /\ Answered
      /\ NameCheck(req.agent_name)
      /\ snapshot[3][req.agent_name] # NoArchive
      /\ NoOutsideFailure )
    => /\ response.status = 200
       /\ downloads[req.agent_name].agent = Customized(TemplateAgent, req)

----------------------------------------------------------------------------
(* Properties of customize_agent_file *)

\* the functions between the llm construction and the marker that a request
\* asks for: its stubs in request order, or the two defaults
RequestedFunctions(r) ==
    IF r.tools = <<>> THEN TemplateFunctions
    ELSE Join([i \in 1..Len(r.tools) |-> generate_tool_stub(r.tools[i])], <<"\n">>)
         \o <<"\n\n">>

\* the tools list a request asks for: its tool names in request order joined
\* by comma-space, or the two defaults
RequestedToolsList(r) ==
    IF r.tools = <<>> THEN ToolsBoilerplate
    ELSE <<"tools=[">> \o Join([i \in 1..Len(r.tools) |-> <<r.tools[i].name>>], <<", ">>)
         \o <<"]">>

\* C14: for every request, after customize_agent_file on the shipped template
\* the description and instruction fields are the request's description and
\* prompt verbatim; with N >= 1 tools the default functions are gone, exactly
\* the N stubs stand in request order and the tools list names exactly the N
\* names; with no tools the default functions and list are unchanged.
C14_CustomizedAsRequested ==
    (content # <<>>) =>
        content = TemplateHead \o RequestedFunctions(custRequest) \o <<Marker>>
                  \o TemplateAgentOpen
                  \o <<"description=\"">> \o custRequest.description \o <<"\"">> \o FieldSep
                  \o <<"instruction=\"">> \o custRequest.prompt \o <<"\"">> \o FieldSep
                  \o RequestedToolsList(custRequest) \o TemplateTail

----------------------------------------------------------------------------
(* Properties of generate_agent_code *)

\* the names of the function blocks of a text, in the order they stand
FunctionNames(text) ==
    LET at == {i \in 1..(Len(text) - 1) : text[i] = "def "}
        nth(k) == CHOOSE i \in at : Cardinality({j \in at : j < i}) = k - 1
    IN  [k \in 1..Cardinality(at) |-> text[nth(k) + 1]]

\* the tools lines of a text: what stands between "    tools=[" and "],"
ToolsLines(text) == {i \in 1..Len(text) : text[i] = "    tools=["}

\* the text holds the body of a default tool function
HasDefaultBody(text) ==
    \E i \in 1..Len(text) :
        text[i] \in {"    \"\"\"Simulates a web search. ... return \"It's 90 degrees and sunny.\"",
                     "    \"\"\"Simulates getting the current time for a city. ... {now.strftime(...)}\""}

\* C13: without tools the text has exactly the two default functions
\* get_weather and get_current_time and a tools list naming those two in that
\* order; with N >= 1 tools it has exactly N function blocks, none of the
\* defaults, and a tools list of the N names in request order joined by
\* comma-space.
C13_FunctionsAndToolList ==
    (code # <<>>) =>
        LET tools == genRequest.tools
            names == [i \in 1..Len(tools) |-> tools[i].name]
        IN  /\ Cardinality(ToolsLines(code)) = 1
            /\ IF tools = <<>>
               THEN /\ FunctionNames(code) = <<"get_weather", "get_current_time">>
                    /\ HasDefaultBody(code)
                    /\ Contains(code, <<"    tools=[", "get_weather", ", ",
                                        "get_current_time", "],">>)
               ELSE /\ FunctionNames(code) = names
                    /\ ~HasDefaultBody(code)
                    /\ \E i \in ToolsLines(code) :
                        /\ i + 2 * Len(tools) <= Len(code)
                        /\ \A k \in 1..Len(tools) :
                            /\ code[i + 2 * k - 1] = names[k]
                            /\ code[i + 2 * k] = IF k = Len(tools) THEN "]," ELSE ", "

\* the text for a request with two tools, get_tide before get_forecast, has
\* been rendered
C13_Witness ==
    /\ code # <<>>
    /\ Len(genRequest.tools) = 2
    /\ genRequest.tools[1].name = "get_tide"
    /\ FunctionNames(code) = <<"get_tide", "get_forecast">>

\* int(v) succeeds: an optional sign and then decimal digits only
ParsesAsInteger(v) ==
    LET body == IF v # <<>> /\ v[1] \in {"-", "+"} THEN Tail(v) ELSE v
    IN  /\ body # <<>>
        /\ \A i \in 1..Len(body) : body[i] \in Digits

\* C15: the default of an environment variable is emitted unquoted exactly
\* when it parses as an integer (negative ones such as "-5" included) or is
\* exactly "True" or "False"; otherwise it is emitted quoted.
C15_DefaultQuoting ==
    (code # <<>>) =>
        \A i \in 1..Len(genRequest.env_vars) :
            LET e == genRequest.env_vars[i]
                opening == <<" = os.getenv(\"", e.name, "\", ">>
            IN  IF ParsesAsInteger(e.default_value)
                   \/ e.default_value \in {<<"True">>, <<"False">>}
                THEN Contains(code, opening \o e.default_value \o <<")">>)
                ELSE Contains(code, opening \o <<"\"">> \o e.default_value \o <<"\"", ")">>)

----------------------------------------------------------------------------
(* Properties of the remote publish, continued *)

\* C21: a publish never produces a destination folder name that an earlier
\* publish of the same agent name in the same run produced.
C21_FolderNamesNeverRepeat ==
    [][(vpc = "names" /\ vpc' # "names") => loc'.folder_name \notin remote]_vars

\* C23: when the drawn folder name is already in the cloned repository the
\* call does not succeed and nothing on the remote changes: no step of such a
\* call leads to the return statement or changes the remote.
C23_CollisionIsHardError ==
    [][(cloned /\ loc.folder_name \in remote /\ vpc # "return")
        => (vpc' # "return" /\ remote' = remote /\ foreign' = foreign)]_vars

\* the access token of the current call
CallToken == IF Falsy(args.github_token) THEN args.env_token ELSE args.github_token

\* C24: the URL handed to the clone step has the access token injected, for
\* the public host and for every enterprise URL, whatever its scheme or
\* trailing slashes.
C24_CloneUrlHasToken ==
    \A i \in 1..Len(plog) :
        plog[i].step = "clone" => Contains(plog[i].cmd, CallToken \o <<"@">>)

\* C27: the text of an error raised by the remote publish or by the account
\* lookup never contains the access token, whichever step failed and whether
\* or not the failing command wrote to stderr.
C27_ErrorTextHasNoToken ==
    (vpc = "idle" /\ result.kind = "raise" /\ ~Falsy(CallToken))
        => ~Contains(result.text, CallToken)

----------------------------------------------------------------------------
(* Properties of the handler: local publish, request fields, file count *)

\* the entries of log made by create_git_repository
GitLog == SelectSeq(log, LAMBDA e : e.step \in GitSteps)

\* the five commands of the local publish in the order the claim gives
ExpectedGitSteps ==
    <<"git init", "git config user.name", "git config user.email", "git add .", "git commit">>

\* all five commands of the local publish ran and succeeded
AllFiveSucceeded ==
    /\ Len(GitLog) = 5
    /\ \A i \in 1..5 : GitLog[i].outcome = "ok"

\* C25: the local publish runs init, set user name, set user email, stage
\* all, commit in that order, each only if all earlier ones succeeded; it
\* commits at most once; it returns the file:// reference to the project
\* directory only when all five succeeded; after the first failing command no
\* later command runs.
C25_LocalPublishInOrder ==
    /\ Len(GitLog) <= 5
    /\ \A i \in 1..Len(GitLog) :
        /\ GitLog[i].step = ExpectedGitSteps[i]
        /\ i < Len(GitLog) => GitLog[i].outcome = "ok"
    /\ Cardinality({i \in 1..Len(log) : log[i].step = "git commit"}) <= 1
    /\ (git_repo_url # None) =>
        /\ AllFiveSucceeded
        /\ git_repo_url = <<"file://", "/tmp/agent-starter-pack-api", "/", "projects", "/">>
                          \o req.agent_name
    /\ (pc = "respond" /\ req.create_git_repo /\ AllFiveSucceeded) => git_repo_url # None
    /\ (GitLog # <<>> /\ GitLog[Len(GitLog)].outcome # "ok") =>
        /\ log[Len(log)] = GitLog[Len(GitLog)]
        /\ pc \in {"respond", "except", "idle"}

\* a request was answered after staging failed: init and the two config
\* commands had succeeded, and no commit was attempted
C25_Witness ==
    /\ Answered
    /\ Len(GitLog) = 4
    /\ GitLog[4] = [step |-> "git add .", outcome |-> "nonzero"]
    /\ response.status = 200
    /\ response.git_repo_url = None

\* the position in log of the entry of a step that succeeded, 0 when none
OkAt(step) ==
    IF \E i \in 1..Len(log) : log[i] = Ok(step)
    THEN CHOOSE i \in 1..Len(log) : log[i] = Ok(step)
    ELSE 0

\* C28: in every successful response files_generated is the number of file
\* entries of the archive the same request produced; the count is taken after
\* customization and before archive and publish, so neither the count nor the
\* archive includes version-control metadata made by the request's publish.
C28_CountEqualsArchiveEntries ==
    (Answered /\ response.status = 200) =>
        LET archive == downloads[req.agent_name]
        IN  /\ archive.root = req.agent_name
            /\ response.files_generated = Cardinality(archive.files)
            /\ \A f \in archive.files : f # ".git/HEAD"
            /\ response.files_generated =
                Cardinality({f \in projects[req.agent_name].files : f # ".git/HEAD"})
            /\ OkAt("customize") > 0
            /\ OkAt("customize") < OkAt("count")
            /\ OkAt("count") < OkAt("archive")
            /\ \A i \in 1..Len(log) : log[i].step \in GitSteps => OkAt("archive") < i

\* a request was answered with success after its local publish made the
\* repository metadata in the project tree
C28_Witness ==
    /\ Answered
    /\ response.status = 200
    /\ ".git/HEAD" \in projects[req.agent_name].files
    /\ response.git_repo_url # None
    /\ response.files_generated = 3


\* the step names of the log, in the order the steps were taken
StepNames == [i \in 1..Len(log) |-> log[i].step]

\* the external steps a request takes when none fails, from the request
\* fields the handler reads: the publish steps depend on create_git_repo alone
StepsFor(create_git_repo) ==
    <<"mkdir", "scaffold", "customize", "count", "archive">>
        \o (IF create_git_repo THEN ExpectedGitSteps ELSE <<>>)

\* the values of the three remote-publish fields of the request that are set
RemoteFieldValues ==
    {v \in {req.github_token, req.github_org, req.github_enterprise_url} : Truthy(v)}

----------------------------------------------------------------------------
(* Properties of the handler and the remote publish together *)

\* no step was attempted twice in the steps l of one request or call
NoStepTwice(l) == \A i, j \in 1..Len(l) : l[i].step = l[j].step => i = j

\* a step of l that failed is the last step of l
FailureIsLast(l) == \A i \in 1..Len(l) : l[i].outcome \notin {"ok", "200"} => i = Len(l)

\* C22: nothing is retried: within one generation request or one publish call
\* each external step (scaffolding, archive creation, each git command, the
\* account lookup) is attempted at most once, and after a step has failed
\* neither it nor any other step of that request or call is attempted.
C22_NothingRetried ==
    /\ NoStepTwice(log)
    /\ FailureIsLast(log)
    /\ NoStepTwice(plog)
    /\ FailureIsLast(plog)

\* a request was answered after its archive creation failed, and a publish
\* call has ended after its push failed
C22_Witness ==
    /\ Answered
    /\ log # <<>>
    /\ log[Len(log)] = [step |-> "archive", outcome |-> "fail"]
    /\ vpc = "idle"
    /\ plog # <<>>
    /\ plog[Len(plog)].step = "git push"
    /\ plog[Len(plog)].outcome = "nonzero"
    /\ \E i \in 1..Len(plog) : plog[i].step = "GET /user"


----------------------------------------------------------------------------
(* Properties of the model adapters *)

\* the chunk carries a finish reason
HasFinishReason(chunk) ==
    chunk.choices # <<>> /\ chunk.choices[1].finish_reason # None

\* a streaming call has ended without any exception, and the last chunk of
\* its stream, and no earlier one, carried a finish reason
StreamEndedWithFinishReason ==
    /\ apc = "idle"
    /\ call \in LlmCalls
    /\ call.stream
    /\ raised = NoExc
    /\ received # <<>>
    /\ \A i \in 1..Len(received) : HasFinishReason(received[i]) <=> i = Len(received)

\* C29: a streaming call whose chunk stream ends normally with a chunk
\* carrying a finish reason has yielded a last response with turn_complete
\* true and partial false, also when that chunk carries no text and no tool
\* call; no response yielded before it has turn_complete true.
C29_FinalResponseCompletesTurn ==
    StreamEndedWithFinishReason =>
        /\ yielded # <<>>
        /\ yielded[Len(yielded)].turn_complete = "True"
        /\ yielded[Len(yielded)].partial = "False"
        /\ \A i \in 1..(Len(yielded) - 1) : yielded[i].turn_complete # "True"

\* the call of the adapter has ended
CallEnded == apc = "idle" /\ call \in LlmCalls

IsError(r) == r.error_code # "None"

\* C30: generate_content_async never lets an exception of the API call or of
\* the response conversion leave it. Without stream a call yields exactly one
\* response: the converted result, or one error response with error_code
\* "api_error" and the exception's text. With stream, a failure after k
\* responses were yielded adds exactly one error response after those k, and
\* then the generator ends.
C30_FailureYieldsOneErrorResponse ==
    /\ [](/\ ~propagated
          /\ \A i \in 1..Len(yielded) : IsError(yielded[i]) =>
                /\ i = Len(yielded)
                /\ apc = "idle"
                /\ yielded[i] = [content |-> NoContent, partial |-> "False",
                                 turn_complete |-> "None", finish_reason |-> "None",
                                 error_code |-> "api_error",
                                 error_message |-> raised.text]
          /\ (CallEnded /\ raised # NoExc) => IsError(yielded[Len(yielded)])
          /\ (CallEnded /\ ~call.stream) => Len(yielded) = 1
          /\ (CallEnded /\ ~call.stream /\ raised = NoExc) =>
                /\ yielded[1].turn_complete = "True"
                /\ yielded[1].partial = "False")
    /\ [][apc = "except" =>
            /\ apc' = "idle"
            /\ Len(yielded') = Len(yielded) + 1
            /\ SubSeq(yielded', 1, Len(yielded)) = yielded
            /\ IsError(yielded'[Len(yielded')])]_vars

\* a streaming call ended with an error response after two responses had
\* been yielded
C30_Witness ==
    /\ CallEnded
    /\ call.stream
    /\ raised \in ApiErrors
    /\ Len(yielded) = 3
    /\ ~IsError(yielded[1]) /\ ~IsError(yielded[2])
    /\ IsError(yielded[3])
    /\ yielded[3].error_message = <<"Connection error.">>

====
